---- MODULE Spec2Model ----
(***************************************************************************)
(* Model of the two operator scripts of DB_Backup:                         *)
(*   src/direct_backup.py   backup_supabase_schema (pg_dump wrapper)       *)
(*   src/direct_restore.py  restore_supabase_data  (psql wrapper)          *)
(* An operator runs the scripts one after another; every run is a         *)
(* sequence of blocking steps (console reads, subprocess calls).           *)
(* A Python str is the sequence of its Unicode code points (ord of each    *)
(* character); the str methods the scripts use are operators on such       *)
(* sequences, with the case and whitespace tables of Python 3.11 (Unicode  *)
(* 14.0).  S("...") is the str written as a literal in the source.         *)
(***************************************************************************)
EXTENDS Integers, Sequences, FiniteSets, TLC

(***************************************************************************)
(* Bounds of the model.                                                    *)
(***************************************************************************)
\* number of script runs the operator performs
MaxRuns == 2
\* clock ticks per second (the clock is finer than the timestamp format)
TicksPerSecond == 2
\* largest number of ticks that pass between two readings of the clock
MaxAdvance == 2
\* second of the day (base date) at which the clock starts
StartSecond == 86398

(***************************************************************************)
(* Python str literals.                                                    *)
(***************************************************************************)
\* the printable ASCII characters the literals use: code points 32 to 95 ...
PrintableLow ==
    " !\"#$%&'()*+,-./0123456789:;<=>?@ABCDEFGHIJKLMNOPQRSTUVWXYZ[\\]^_"

\* ... and 97 to 126, in order
PrintableHigh == "abcdefghijklmnopqrstuvwxyz{|}~"

\* Python: ord(ch), for each of these characters
Ord ==
    [ ch \in { SubSeq(PrintableLow, i, i) : i \in 1..Len(PrintableLow) }
              \cup { SubSeq(PrintableHigh, i, i) : i \in 1..Len(PrintableHigh) } |->
        IF \E i \in 1..Len(PrintableLow) : SubSeq(PrintableLow, i, i) = ch
        THEN 31 + CHOOSE i \in 1..Len(PrintableLow) : SubSeq(PrintableLow, i, i) = ch
        ELSE 96 + CHOOSE i \in 1..Len(PrintableHigh) : SubSeq(PrintableHigh, i, i) = ch ]

\* the str a literal of printable ASCII characters denotes
S(literal) == [ i \in 1..Len(literal) |-> Ord[SubSeq(literal, i, i)] ]

(***************************************************************************)
(* Python str methods.                                                     *)
(***************************************************************************)
\* Python: sub in s
Contains(s, sub) ==
    \/ sub = <<>>
    \/ \E i \in 1..(Len(s) - Len(sub) + 1) :
           s[i] = sub[1] /\ SubSeq(s, i, i + Len(sub) - 1) = sub

StartsWith(s, prefix) ==
    Len(prefix) <= Len(s) /\ SubSeq(s, 1, Len(prefix)) = prefix

\* the code points str.strip() removes (str.isspace)
Whitespace ==
    { 9, 10, 11, 12, 13, 28, 29, 30, 31, 32, 133, 160, 5760, 8192,
      8193, 8194, 8195, 8196, 8197, 8198, 8199, 8200, 8201, 8202, 8232, 8233, 8239, 8287, 12288 }

RECURSIVE LStrip(_)
LStrip(s) ==
    IF s # <<>> /\ Head(s) \in Whitespace THEN LStrip(Tail(s)) ELSE s

RECURSIVE RStrip(_)
RStrip(s) ==
    IF s # <<>> /\ s[Len(s)] \in Whitespace
    THEN RStrip(SubSeq(s, 1, Len(s) - 1)) ELSE s

\* Python: s.strip()
Strip(s) == RStrip(LStrip(s))

\* str.upper(): the code points it changes, as runs <<first, last, step, offset>>
UpperRuns ==
    {
      <<97, 122, 1, -32>>, <<181, 181, 1, 743>>, <<224, 246, 1, -32>>,
      <<248, 254, 1, -32>>, <<255, 255, 1, 121>>, <<257, 303, 2, -1>>,
      <<305, 305, 1, -232>>, <<307, 311, 2, -1>>, <<314, 328, 2, -1>>,
      <<331, 375, 2, -1>>, <<378, 382, 2, -1>>, <<383, 383, 1, -300>>,
      <<384, 384, 1, 195>>, <<387, 389, 2, -1>>, <<392, 392, 1, -1>>,
      <<396, 396, 1, -1>>, <<402, 402, 1, -1>>, <<405, 405, 1, 97>>,
      <<409, 409, 1, -1>>, <<410, 410, 1, 163>>, <<414, 414, 1, 130>>,
      <<417, 421, 2, -1>>, <<424, 424, 1, -1>>, <<429, 429, 1, -1>>,
      <<432, 432, 1, -1>>, <<436, 438, 2, -1>>, <<441, 441, 1, -1>>,
      <<445, 445, 1, -1>>, <<447, 447, 1, 56>>, <<453, 453, 1, -1>>,
      <<454, 454, 1, -2>>, <<456, 456, 1, -1>>, <<457, 457, 1, -2>>,
      <<459, 459, 1, -1>>, <<460, 460, 1, -2>>, <<462, 476, 2, -1>>,
      <<477, 477, 1, -79>>, <<479, 495, 2, -1>>, <<498, 498, 1, -1>>,
      <<499, 499, 1, -2>>, <<501, 501, 1, -1>>, <<505, 543, 2, -1>>,
      <<547, 563, 2, -1>>, <<572, 572, 1, -1>>, <<575, 576, 1, 10815>>,
      <<578, 578, 1, -1>>, <<583, 591, 2, -1>>, <<592, 592, 1, 10783>>,
      <<593, 593, 1, 10780>>, <<594, 594, 1, 10782>>, <<595, 595, 1, -210>>,
      <<596, 596, 1, -206>>, <<598, 599, 1, -205>>, <<601, 601, 1, -202>>,
      <<603, 603, 1, -203>>, <<604, 604, 1, 42319>>, <<608, 608, 1, -205>>,
      <<609, 609, 1, 42315>>, <<611, 611, 1, -207>>, <<613, 613, 1, 42280>>,
      <<614, 614, 1, 42308>>, <<616, 616, 1, -209>>, <<617, 617, 1, -211>>,
      <<618, 618, 1, 42308>>, <<619, 619, 1, 10743>>, <<620, 620, 1, 42305>>,
      <<623, 623, 1, -211>>, <<625, 625, 1, 10749>>, <<626, 626, 1, -213>>,
      <<629, 629, 1, -214>>, <<637, 637, 1, 10727>>, <<640, 640, 1, -218>>,
      <<642, 642, 1, 42307>>, <<643, 643, 1, -218>>, <<647, 647, 1, 42282>>,
      <<648, 648, 1, -218>>, <<649, 649, 1, -69>>, <<650, 651, 1, -217>>,
      <<652, 652, 1, -71>>, <<658, 658, 1, -219>>, <<669, 669, 1, 42261>>,
      <<670, 670, 1, 42258>>, <<837, 837, 1, 84>>, <<881, 883, 2, -1>>,
      <<887, 887, 1, -1>>, <<891, 893, 1, 130>>, <<940, 940, 1, -38>>,
      <<941, 943, 1, -37>>, <<945, 961, 1, -32>>, <<962, 962, 1, -31>>,
      <<963, 971, 1, -32>>, <<972, 972, 1, -64>>, <<973, 974, 1, -63>>,
      <<976, 976, 1, -62>>, <<977, 977, 1, -57>>, <<981, 981, 1, -47>>,
      <<982, 982, 1, -54>>, <<983, 983, 1, -8>>, <<985, 1007, 2, -1>>,
      <<1008, 1008, 1, -86>>, <<1009, 1009, 1, -80>>, <<1010, 1010, 1, 7>>,
      <<1011, 1011, 1, -116>>, <<1013, 1013, 1, -96>>, <<1016, 1016, 1, -1>>,
      <<1019, 1019, 1, -1>>, <<1072, 1103, 1, -32>>, <<1104, 1119, 1, -80>>,
      <<1121, 1153, 2, -1>>, <<1163, 1215, 2, -1>>, <<1218, 1230, 2, -1>>,
      <<1231, 1231, 1, -15>>, <<1233, 1327, 2, -1>>, <<1377, 1414, 1, -48>>,
      <<4304, 4346, 1, 3008>>, <<4349, 4351, 1, 3008>>, <<5112, 5117, 1, -8>>,
      <<7296, 7296, 1, -6254>>, <<7297, 7297, 1, -6253>>, <<7298, 7298, 1, -6244>>,
      <<7299, 7300, 1, -6242>>, <<7301, 7301, 1, -6243>>, <<7302, 7302, 1, -6236>>,
      <<7303, 7303, 1, -6181>>, <<7304, 7304, 1, 35266>>, <<7545, 7545, 1, 35332>>,
      <<7549, 7549, 1, 3814>>, <<7566, 7566, 1, 35384>>, <<7681, 7829, 2, -1>>,
      <<7835, 7835, 1, -59>>, <<7841, 7935, 2, -1>>, <<7936, 7943, 1, 8>>,
      <<7952, 7957, 1, 8>>, <<7968, 7975, 1, 8>>, <<7984, 7991, 1, 8>>,
      <<8000, 8005, 1, 8>>, <<8017, 8023, 2, 8>>, <<8032, 8039, 1, 8>>,
      <<8048, 8049, 1, 74>>, <<8050, 8053, 1, 86>>, <<8054, 8055, 1, 100>>,
      <<8056, 8057, 1, 128>>, <<8058, 8059, 1, 112>>, <<8060, 8061, 1, 126>>,
      <<8112, 8113, 1, 8>>, <<8126, 8126, 1, -7205>>, <<8144, 8145, 1, 8>>,
      <<8160, 8161, 1, 8>>, <<8165, 8165, 1, 7>>, <<8526, 8526, 1, -28>>,
      <<8560, 8575, 1, -16>>, <<8580, 8580, 1, -1>>, <<9424, 9449, 1, -26>>,
      <<11312, 11359, 1, -48>>, <<11361, 11361, 1, -1>>,
      <<11365, 11365, 1, -10795>>, <<11366, 11366, 1, -10792>>,
      <<11368, 11372, 2, -1>>, <<11379, 11379, 1, -1>>, <<11382, 11382, 1, -1>>,
      <<11393, 11491, 2, -1>>, <<11500, 11502, 2, -1>>, <<11507, 11507, 1, -1>>,
      <<11520, 11557, 1, -7264>>, <<11559, 11559, 1, -7264>>,
      <<11565, 11565, 1, -7264>>, <<42561, 42605, 2, -1>>, <<42625, 42651, 2, -1>>,
      <<42787, 42799, 2, -1>>, <<42803, 42863, 2, -1>>, <<42874, 42876, 2, -1>>,
      <<42879, 42887, 2, -1>>, <<42892, 42892, 1, -1>>, <<42897, 42899, 2, -1>>,
      <<42900, 42900, 1, 48>>, <<42903, 42921, 2, -1>>, <<42933, 42947, 2, -1>>,
      <<42952, 42954, 2, -1>>, <<42961, 42961, 1, -1>>, <<42967, 42969, 2, -1>>,
      <<42998, 42998, 1, -1>>, <<43859, 43859, 1, -928>>,
      <<43888, 43967, 1, -38864>>, <<65345, 65370, 1, -32>>,
      <<66600, 66639, 1, -40>>, <<66776, 66811, 1, -40>>, <<66967, 67003, 2, -39>>,
      <<66968, 66976, 2, -39>>, <<66980, 66992, 2, -39>>, <<66996, 67000, 2, -39>>,
      <<67004, 67004, 1, -39>>, <<68800, 68850, 1, -64>>, <<71872, 71903, 1, -32>>,
      <<93792, 93823, 1, -32>>, <<125218, 125251, 1, -34>>
    }

\* str.upper(): the code points it replaces by several
UpperSpecial ==
    {
      <<223, <<83, 83>>>>, <<329, <<700, 78>>>>, <<496, <<74, 780>>>>,
      <<912, <<921, 776, 769>>>>, <<944, <<933, 776, 769>>>>,
      <<1415, <<1333, 1362>>>>, <<7830, <<72, 817>>>>, <<7831, <<84, 776>>>>,
      <<7832, <<87, 778>>>>, <<7833, <<89, 778>>>>, <<7834, <<65, 702>>>>,
      <<8016, <<933, 787>>>>, <<8018, <<933, 787, 768>>>>,
      <<8020, <<933, 787, 769>>>>, <<8022, <<933, 787, 834>>>>,
      <<8064, <<7944, 921>>>>, <<8065, <<7945, 921>>>>, <<8066, <<7946, 921>>>>,
      <<8067, <<7947, 921>>>>, <<8068, <<7948, 921>>>>, <<8069, <<7949, 921>>>>,
      <<8070, <<7950, 921>>>>, <<8071, <<7951, 921>>>>, <<8072, <<7944, 921>>>>,
      <<8073, <<7945, 921>>>>, <<8074, <<7946, 921>>>>, <<8075, <<7947, 921>>>>,
      <<8076, <<7948, 921>>>>, <<8077, <<7949, 921>>>>, <<8078, <<7950, 921>>>>,
      <<8079, <<7951, 921>>>>, <<8080, <<7976, 921>>>>, <<8081, <<7977, 921>>>>,
      <<8082, <<7978, 921>>>>, <<8083, <<7979, 921>>>>, <<8084, <<7980, 921>>>>,
      <<8085, <<7981, 921>>>>, <<8086, <<7982, 921>>>>, <<8087, <<7983, 921>>>>,
      <<8088, <<7976, 921>>>>, <<8089, <<7977, 921>>>>, <<8090, <<7978, 921>>>>,
      <<8091, <<7979, 921>>>>, <<8092, <<7980, 921>>>>, <<8093, <<7981, 921>>>>,
      <<8094, <<7982, 921>>>>, <<8095, <<7983, 921>>>>, <<8096, <<8040, 921>>>>,
      <<8097, <<8041, 921>>>>, <<8098, <<8042, 921>>>>, <<8099, <<8043, 921>>>>,
      <<8100, <<8044, 921>>>>, <<8101, <<8045, 921>>>>, <<8102, <<8046, 921>>>>,
      <<8103, <<8047, 921>>>>, <<8104, <<8040, 921>>>>, <<8105, <<8041, 921>>>>,
      <<8106, <<8042, 921>>>>, <<8107, <<8043, 921>>>>, <<8108, <<8044, 921>>>>,
      <<8109, <<8045, 921>>>>, <<8110, <<8046, 921>>>>, <<8111, <<8047, 921>>>>,
      <<8114, <<8122, 921>>>>, <<8115, <<913, 921>>>>, <<8116, <<902, 921>>>>,
      <<8118, <<913, 834>>>>, <<8119, <<913, 834, 921>>>>, <<8124, <<913, 921>>>>,
      <<8130, <<8138, 921>>>>, <<8131, <<919, 921>>>>, <<8132, <<905, 921>>>>,
      <<8134, <<919, 834>>>>, <<8135, <<919, 834, 921>>>>, <<8140, <<919, 921>>>>,
      <<8146, <<921, 776, 768>>>>, <<8147, <<921, 776, 769>>>>,
      <<8150, <<921, 834>>>>, <<8151, <<921, 776, 834>>>>,
      <<8162, <<933, 776, 768>>>>, <<8163, <<933, 776, 769>>>>,
      <<8164, <<929, 787>>>>, <<8166, <<933, 834>>>>, <<8167, <<933, 776, 834>>>>,
      <<8178, <<8186, 921>>>>, <<8179, <<937, 921>>>>, <<8180, <<911, 921>>>>,
      <<8182, <<937, 834>>>>, <<8183, <<937, 834, 921>>>>, <<8188, <<937, 921>>>>,
      <<64256, <<70, 70>>>>, <<64257, <<70, 73>>>>, <<64258, <<70, 76>>>>,
      <<64259, <<70, 70, 73>>>>, <<64260, <<70, 70, 76>>>>, <<64261, <<83, 84>>>>,
      <<64262, <<83, 84>>>>, <<64275, <<1348, 1350>>>>, <<64276, <<1348, 1333>>>>,
      <<64277, <<1348, 1339>>>>, <<64278, <<1358, 1350>>>>,
      <<64279, <<1348, 1341>>>>
    }

\* str.lower(): the code points it changes, as runs <<first, last, step, offset>>
LowerRuns ==
    {
      <<65, 90, 1, 32>>, <<192, 214, 1, 32>>, <<216, 222, 1, 32>>,
      <<256, 302, 2, 1>>, <<306, 310, 2, 1>>, <<313, 327, 2, 1>>,
      <<330, 374, 2, 1>>, <<376, 376, 1, -121>>, <<377, 381, 2, 1>>,
      <<385, 385, 1, 210>>, <<386, 388, 2, 1>>, <<390, 390, 1, 206>>,
      <<391, 391, 1, 1>>, <<393, 394, 1, 205>>, <<395, 395, 1, 1>>,
      <<398, 398, 1, 79>>, <<399, 399, 1, 202>>, <<400, 400, 1, 203>>,
      <<401, 401, 1, 1>>, <<403, 403, 1, 205>>, <<404, 404, 1, 207>>,
      <<406, 406, 1, 211>>, <<407, 407, 1, 209>>, <<408, 408, 1, 1>>,
      <<412, 412, 1, 211>>, <<413, 413, 1, 213>>, <<415, 415, 1, 214>>,
      <<416, 420, 2, 1>>, <<422, 422, 1, 218>>, <<423, 423, 1, 1>>,
      <<425, 425, 1, 218>>, <<428, 428, 1, 1>>, <<430, 430, 1, 218>>,
      <<431, 431, 1, 1>>, <<433, 434, 1, 217>>, <<435, 437, 2, 1>>,
      <<439, 439, 1, 219>>, <<440, 440, 1, 1>>, <<444, 444, 1, 1>>,
      <<452, 452, 1, 2>>, <<453, 453, 1, 1>>, <<455, 455, 1, 2>>,
      <<456, 456, 1, 1>>, <<458, 458, 1, 2>>, <<459, 475, 2, 1>>,
      <<478, 494, 2, 1>>, <<497, 497, 1, 2>>, <<498, 500, 2, 1>>,
      <<502, 502, 1, -97>>, <<503, 503, 1, -56>>, <<504, 542, 2, 1>>,
      <<544, 544, 1, -130>>, <<546, 562, 2, 1>>, <<570, 570, 1, 10795>>,
      <<571, 571, 1, 1>>, <<573, 573, 1, -163>>, <<574, 574, 1, 10792>>,
      <<577, 577, 1, 1>>, <<579, 579, 1, -195>>, <<580, 580, 1, 69>>,
      <<581, 581, 1, 71>>, <<582, 590, 2, 1>>, <<880, 882, 2, 1>>,
      <<886, 886, 1, 1>>, <<895, 895, 1, 116>>, <<902, 902, 1, 38>>,
      <<904, 906, 1, 37>>, <<908, 908, 1, 64>>, <<910, 911, 1, 63>>,
      <<913, 929, 1, 32>>, <<931, 939, 1, 32>>, <<975, 975, 1, 8>>,
      <<984, 1006, 2, 1>>, <<1012, 1012, 1, -60>>, <<1015, 1015, 1, 1>>,
      <<1017, 1017, 1, -7>>, <<1018, 1018, 1, 1>>, <<1021, 1023, 1, -130>>,
      <<1024, 1039, 1, 80>>, <<1040, 1071, 1, 32>>, <<1120, 1152, 2, 1>>,
      <<1162, 1214, 2, 1>>, <<1216, 1216, 1, 15>>, <<1217, 1229, 2, 1>>,
      <<1232, 1326, 2, 1>>, <<1329, 1366, 1, 48>>, <<4256, 4293, 1, 7264>>,
      <<4295, 4295, 1, 7264>>, <<4301, 4301, 1, 7264>>, <<5024, 5103, 1, 38864>>,
      <<5104, 5109, 1, 8>>, <<7312, 7354, 1, -3008>>, <<7357, 7359, 1, -3008>>,
      <<7680, 7828, 2, 1>>, <<7838, 7838, 1, -7615>>, <<7840, 7934, 2, 1>>,
      <<7944, 7951, 1, -8>>, <<7960, 7965, 1, -8>>, <<7976, 7983, 1, -8>>,
      <<7992, 7999, 1, -8>>, <<8008, 8013, 1, -8>>, <<8025, 8031, 2, -8>>,
      <<8040, 8047, 1, -8>>, <<8072, 8079, 1, -8>>, <<8088, 8095, 1, -8>>,
      <<8104, 8111, 1, -8>>, <<8120, 8121, 1, -8>>, <<8122, 8123, 1, -74>>,
      <<8124, 8124, 1, -9>>, <<8136, 8139, 1, -86>>, <<8140, 8140, 1, -9>>,
      <<8152, 8153, 1, -8>>, <<8154, 8155, 1, -100>>, <<8168, 8169, 1, -8>>,
      <<8170, 8171, 1, -112>>, <<8172, 8172, 1, -7>>, <<8184, 8185, 1, -128>>,
      <<8186, 8187, 1, -126>>, <<8188, 8188, 1, -9>>, <<8486, 8486, 1, -7517>>,
      <<8490, 8490, 1, -8383>>, <<8491, 8491, 1, -8262>>, <<8498, 8498, 1, 28>>,
      <<8544, 8559, 1, 16>>, <<8579, 8579, 1, 1>>, <<9398, 9423, 1, 26>>,
      <<11264, 11311, 1, 48>>, <<11360, 11360, 1, 1>>, <<11362, 11362, 1, -10743>>,
      <<11363, 11363, 1, -3814>>, <<11364, 11364, 1, -10727>>,
      <<11367, 11371, 2, 1>>, <<11373, 11373, 1, -10780>>,
      <<11374, 11374, 1, -10749>>, <<11375, 11375, 1, -10783>>,
      <<11376, 11376, 1, -10782>>, <<11378, 11378, 1, 1>>, <<11381, 11381, 1, 1>>,
      <<11390, 11391, 1, -10815>>, <<11392, 11490, 2, 1>>, <<11499, 11501, 2, 1>>,
      <<11506, 11506, 1, 1>>, <<42560, 42604, 2, 1>>, <<42624, 42650, 2, 1>>,
      <<42786, 42798, 2, 1>>, <<42802, 42862, 2, 1>>, <<42873, 42875, 2, 1>>,
      <<42877, 42877, 1, -35332>>, <<42878, 42886, 2, 1>>, <<42891, 42891, 1, 1>>,
      <<42893, 42893, 1, -42280>>, <<42896, 42898, 2, 1>>, <<42902, 42920, 2, 1>>,
      <<42922, 42922, 1, -42308>>, <<42923, 42923, 1, -42319>>,
      <<42924, 42924, 1, -42315>>, <<42925, 42925, 1, -42305>>,
      <<42926, 42926, 1, -42308>>, <<42928, 42928, 1, -42258>>,
      <<42929, 42929, 1, -42282>>, <<42930, 42930, 1, -42261>>,
      <<42931, 42931, 1, 928>>, <<42932, 42946, 2, 1>>, <<42948, 42948, 1, -48>>,
      <<42949, 42949, 1, -42307>>, <<42950, 42950, 1, -35384>>,
      <<42951, 42953, 2, 1>>, <<42960, 42960, 1, 1>>, <<42966, 42968, 2, 1>>,
      <<42997, 42997, 1, 1>>, <<65313, 65338, 1, 32>>, <<66560, 66599, 1, 40>>,
      <<66736, 66771, 1, 40>>, <<66928, 66964, 2, 39>>, <<66929, 66937, 2, 39>>,
      <<66941, 66953, 2, 39>>, <<66957, 66961, 2, 39>>, <<66965, 66965, 1, 39>>,
      <<68736, 68786, 1, 64>>, <<71840, 71871, 1, 32>>, <<93760, 93791, 1, 32>>,
      <<125184, 125217, 1, 34>>
    }

\* str.lower(): the code points it replaces by several
LowerSpecial ==
    {
      <<304, <<105, 775>>>>
    }

\* str.lower(), capital sigma: the case-ignorable code points, as ranges
CaseIgnorable ==
    {
      <<39, 39>>, <<46, 46>>, <<58, 58>>, <<94, 94>>, <<96, 96>>, <<168, 168>>,
      <<173, 173>>, <<175, 175>>, <<180, 180>>, <<183, 184>>, <<688, 879>>,
      <<884, 885>>, <<890, 890>>, <<900, 901>>, <<903, 903>>, <<1155, 1161>>,
      <<1369, 1369>>, <<1375, 1375>>, <<1425, 1469>>, <<1471, 1471>>,
      <<1473, 1474>>, <<1476, 1477>>, <<1479, 1479>>, <<1524, 1524>>,
      <<1536, 1541>>, <<1552, 1562>>, <<1564, 1564>>, <<1600, 1600>>,
      <<1611, 1631>>, <<1648, 1648>>, <<1750, 1757>>, <<1759, 1768>>,
      <<1770, 1773>>, <<1807, 1807>>, <<1809, 1809>>, <<1840, 1866>>,
      <<1958, 1968>>, <<2027, 2037>>, <<2042, 2042>>, <<2045, 2045>>,
      <<2070, 2093>>, <<2137, 2139>>, <<2184, 2184>>, <<2192, 2193>>,
      <<2200, 2207>>, <<2249, 2306>>, <<2362, 2362>>, <<2364, 2364>>,
      <<2369, 2376>>, <<2381, 2381>>, <<2385, 2391>>, <<2402, 2403>>,
      <<2417, 2417>>, <<2433, 2433>>, <<2492, 2492>>, <<2497, 2500>>,
      <<2509, 2509>>, <<2530, 2531>>, <<2558, 2558>>, <<2561, 2562>>,
      <<2620, 2620>>, <<2625, 2626>>, <<2631, 2632>>, <<2635, 2637>>,
      <<2641, 2641>>, <<2672, 2673>>, <<2677, 2677>>, <<2689, 2690>>,
      <<2748, 2748>>, <<2753, 2757>>, <<2759, 2760>>, <<2765, 2765>>,
      <<2786, 2787>>, <<2810, 2815>>, <<2817, 2817>>, <<2876, 2876>>,
      <<2879, 2879>>, <<2881, 2884>>, <<2893, 2893>>, <<2901, 2902>>,
      <<2914, 2915>>, <<2946, 2946>>, <<3008, 3008>>, <<3021, 3021>>,
      <<3072, 3072>>, <<3076, 3076>>, <<3132, 3132>>, <<3134, 3136>>,
      <<3142, 3144>>, <<3146, 3149>>, <<3157, 3158>>, <<3170, 3171>>,
      <<3201, 3201>>, <<3260, 3260>>, <<3263, 3263>>, <<3270, 3270>>,
      <<3276, 3277>>, <<3298, 3299>>, <<3328, 3329>>, <<3387, 3388>>,
      <<3393, 3396>>, <<3405, 3405>>, <<3426, 3427>>, <<3457, 3457>>,
      <<3530, 3530>>, <<3538, 3540>>, <<3542, 3542>>, <<3633, 3633>>,
      <<3636, 3642>>, <<3654, 3662>>, <<3761, 3761>>, <<3764, 3772>>,
      <<3782, 3782>>, <<3784, 3789>>, <<3864, 3865>>, <<3893, 3893>>,
      <<3895, 3895>>, <<3897, 3897>>, <<3953, 3966>>, <<3968, 3972>>,
      <<3974, 3975>>, <<3981, 3991>>, <<3993, 4028>>, <<4038, 4038>>,
      <<4141, 4144>>, <<4146, 4151>>, <<4153, 4154>>, <<4157, 4158>>,
      <<4184, 4185>>, <<4190, 4192>>, <<4209, 4212>>, <<4226, 4226>>,
      <<4229, 4230>>, <<4237, 4237>>, <<4253, 4253>>, <<4348, 4348>>,
      <<4957, 4959>>, <<5906, 5908>>, <<5938, 5939>>, <<5970, 5971>>,
      <<6002, 6003>>, <<6068, 6069>>, <<6071, 6077>>, <<6086, 6086>>,
      <<6089, 6099>>, <<6103, 6103>>, <<6109, 6109>>, <<6155, 6159>>,
      <<6211, 6211>>, <<6277, 6278>>, <<6313, 6313>>, <<6432, 6434>>,
      <<6439, 6440>>, <<6450, 6450>>, <<6457, 6459>>, <<6679, 6680>>,
      <<6683, 6683>>, <<6742, 6742>>, <<6744, 6750>>, <<6752, 6752>>,
      <<6754, 6754>>, <<6757, 6764>>, <<6771, 6780>>, <<6783, 6783>>,
      <<6823, 6823>>, <<6832, 6862>>, <<6912, 6915>>, <<6964, 6964>>,
      <<6966, 6970>>, <<6972, 6972>>, <<6978, 6978>>, <<7019, 7027>>,
      <<7040, 7041>>, <<7074, 7077>>, <<7080, 7081>>, <<7083, 7085>>,
      <<7142, 7142>>, <<7144, 7145>>, <<7149, 7149>>, <<7151, 7153>>,
      <<7212, 7219>>, <<7222, 7223>>, <<7288, 7293>>, <<7376, 7378>>,
      <<7380, 7392>>, <<7394, 7400>>, <<7405, 7405>>, <<7412, 7412>>,
      <<7416, 7417>>, <<7468, 7530>>, <<7544, 7544>>, <<7579, 7679>>,
      <<8125, 8125>>, <<8127, 8129>>, <<8141, 8143>>, <<8157, 8159>>,
      <<8173, 8175>>, <<8189, 8190>>, <<8203, 8207>>, <<8216, 8217>>,
      <<8228, 8228>>, <<8231, 8231>>, <<8234, 8238>>, <<8288, 8292>>,
      <<8294, 8303>>, <<8305, 8305>>, <<8319, 8319>>, <<8336, 8348>>,
      <<8400, 8432>>, <<11388, 11389>>, <<11503, 11505>>, <<11631, 11631>>,
      <<11647, 11647>>, <<11744, 11775>>, <<11823, 11823>>, <<12293, 12293>>,
      <<12330, 12333>>, <<12337, 12341>>, <<12347, 12347>>, <<12441, 12446>>,
      <<12540, 12542>>, <<40981, 40981>>, <<42232, 42237>>, <<42508, 42508>>,
      <<42607, 42610>>, <<42612, 42621>>, <<42623, 42623>>, <<42652, 42655>>,
      <<42736, 42737>>, <<42752, 42785>>, <<42864, 42864>>, <<42888, 42890>>,
      <<42994, 42996>>, <<43000, 43001>>, <<43010, 43010>>, <<43014, 43014>>,
      <<43019, 43019>>, <<43045, 43046>>, <<43052, 43052>>, <<43204, 43205>>,
      <<43232, 43249>>, <<43263, 43263>>, <<43302, 43309>>, <<43335, 43345>>,
      <<43392, 43394>>, <<43443, 43443>>, <<43446, 43449>>, <<43452, 43453>>,
      <<43471, 43471>>, <<43493, 43494>>, <<43561, 43566>>, <<43569, 43570>>,
      <<43573, 43574>>, <<43587, 43587>>, <<43596, 43596>>, <<43632, 43632>>,
      <<43644, 43644>>, <<43696, 43696>>, <<43698, 43700>>, <<43703, 43704>>,
      <<43710, 43711>>, <<43713, 43713>>, <<43741, 43741>>, <<43756, 43757>>,
      <<43763, 43764>>, <<43766, 43766>>, <<43867, 43871>>, <<43881, 43883>>,
      <<44005, 44005>>, <<44008, 44008>>, <<44013, 44013>>, <<64286, 64286>>,
      <<64434, 64450>>, <<65024, 65039>>, <<65043, 65043>>, <<65056, 65071>>,
      <<65106, 65106>>, <<65109, 65109>>, <<65279, 65279>>, <<65287, 65287>>,
      <<65294, 65294>>, <<65306, 65306>>, <<65342, 65342>>, <<65344, 65344>>,
      <<65392, 65392>>, <<65438, 65439>>, <<65507, 65507>>, <<65529, 65531>>,
      <<66045, 66045>>, <<66272, 66272>>, <<66422, 66426>>, <<67456, 67461>>,
      <<67463, 67504>>, <<67506, 67514>>, <<68097, 68099>>, <<68101, 68102>>,
      <<68108, 68111>>, <<68152, 68154>>, <<68159, 68159>>, <<68325, 68326>>,
      <<68900, 68903>>, <<69291, 69292>>, <<69446, 69456>>, <<69506, 69509>>,
      <<69633, 69633>>, <<69688, 69702>>, <<69744, 69744>>, <<69747, 69748>>,
      <<69759, 69761>>, <<69811, 69814>>, <<69817, 69818>>, <<69821, 69821>>,
      <<69826, 69826>>, <<69837, 69837>>, <<69888, 69890>>, <<69927, 69931>>,
      <<69933, 69940>>, <<70003, 70003>>, <<70016, 70017>>, <<70070, 70078>>,
      <<70089, 70092>>, <<70095, 70095>>, <<70191, 70193>>, <<70196, 70196>>,
      <<70198, 70199>>, <<70206, 70206>>, <<70367, 70367>>, <<70371, 70378>>,
      <<70400, 70401>>, <<70459, 70460>>, <<70464, 70464>>, <<70502, 70508>>,
      <<70512, 70516>>, <<70712, 70719>>, <<70722, 70724>>, <<70726, 70726>>,
      <<70750, 70750>>, <<70835, 70840>>, <<70842, 70842>>, <<70847, 70848>>,
      <<70850, 70851>>, <<71090, 71093>>, <<71100, 71101>>, <<71103, 71104>>,
      <<71132, 71133>>, <<71219, 71226>>, <<71229, 71229>>, <<71231, 71232>>,
      <<71339, 71339>>, <<71341, 71341>>, <<71344, 71349>>, <<71351, 71351>>,
      <<71453, 71455>>, <<71458, 71461>>, <<71463, 71467>>, <<71727, 71735>>,
      <<71737, 71738>>, <<71995, 71996>>, <<71998, 71998>>, <<72003, 72003>>,
      <<72148, 72151>>, <<72154, 72155>>, <<72160, 72160>>, <<72193, 72202>>,
      <<72243, 72248>>, <<72251, 72254>>, <<72263, 72263>>, <<72273, 72278>>,
      <<72281, 72283>>, <<72330, 72342>>, <<72344, 72345>>, <<72752, 72758>>,
      <<72760, 72765>>, <<72767, 72767>>, <<72850, 72871>>, <<72874, 72880>>,
      <<72882, 72883>>, <<72885, 72886>>, <<73009, 73014>>, <<73018, 73018>>,
      <<73020, 73021>>, <<73023, 73029>>, <<73031, 73031>>, <<73104, 73105>>,
      <<73109, 73109>>, <<73111, 73111>>, <<73459, 73460>>, <<78896, 78904>>,
      <<92912, 92916>>, <<92976, 92982>>, <<92992, 92995>>, <<94031, 94031>>,
      <<94095, 94111>>, <<94176, 94177>>, <<94179, 94180>>, <<110576, 110579>>,
      <<110581, 110587>>, <<110589, 110590>>, <<113821, 113822>>,
      <<113824, 113827>>, <<118528, 118573>>, <<118576, 118598>>,
      <<119143, 119145>>, <<119155, 119170>>, <<119173, 119179>>,
      <<119210, 119213>>, <<119362, 119364>>, <<121344, 121398>>,
      <<121403, 121452>>, <<121461, 121461>>, <<121476, 121476>>,
      <<121499, 121503>>, <<121505, 121519>>, <<122880, 122886>>,
      <<122888, 122904>>, <<122907, 122913>>, <<122915, 122916>>,
      <<122918, 122922>>, <<123184, 123197>>, <<123566, 123566>>,
      <<123628, 123631>>, <<125136, 125142>>, <<125252, 125259>>,
      <<127995, 127999>>, <<917505, 917505>>, <<917536, 917631>>,
      <<917760, 917999>>
    }

\* str.lower(), capital sigma: the cased code points that are not case-ignorable
Cased ==
    {
      <<65, 90>>, <<97, 122>>, <<170, 170>>, <<181, 181>>, <<186, 186>>,
      <<192, 214>>, <<216, 246>>, <<248, 442>>, <<444, 447>>, <<452, 659>>,
      <<661, 687>>, <<880, 883>>, <<886, 887>>, <<891, 893>>, <<895, 895>>,
      <<902, 902>>, <<904, 906>>, <<908, 908>>, <<910, 929>>, <<931, 1013>>,
      <<1015, 1153>>, <<1162, 1327>>, <<1329, 1366>>, <<1376, 1416>>,
      <<4256, 4293>>, <<4295, 4295>>, <<4301, 4301>>, <<4304, 4346>>,
      <<4349, 4351>>, <<5024, 5109>>, <<5112, 5117>>, <<7296, 7304>>,
      <<7312, 7354>>, <<7357, 7359>>, <<7424, 7467>>, <<7531, 7543>>,
      <<7545, 7578>>, <<7680, 7957>>, <<7960, 7965>>, <<7968, 8005>>,
      <<8008, 8013>>, <<8016, 8023>>, <<8025, 8025>>, <<8027, 8027>>,
      <<8029, 8029>>, <<8031, 8061>>, <<8064, 8116>>, <<8118, 8124>>,
      <<8126, 8126>>, <<8130, 8132>>, <<8134, 8140>>, <<8144, 8147>>,
      <<8150, 8155>>, <<8160, 8172>>, <<8178, 8180>>, <<8182, 8188>>,
      <<8450, 8450>>, <<8455, 8455>>, <<8458, 8467>>, <<8469, 8469>>,
      <<8473, 8477>>, <<8484, 8484>>, <<8486, 8486>>, <<8488, 8488>>,
      <<8490, 8493>>, <<8495, 8500>>, <<8505, 8505>>, <<8508, 8511>>,
      <<8517, 8521>>, <<8526, 8526>>, <<8544, 8575>>, <<8579, 8580>>,
      <<9398, 9449>>, <<11264, 11387>>, <<11390, 11492>>, <<11499, 11502>>,
      <<11506, 11507>>, <<11520, 11557>>, <<11559, 11559>>, <<11565, 11565>>,
      <<42560, 42605>>, <<42624, 42651>>, <<42786, 42863>>, <<42865, 42887>>,
      <<42891, 42894>>, <<42896, 42954>>, <<42960, 42961>>, <<42963, 42963>>,
      <<42965, 42969>>, <<42997, 42998>>, <<43002, 43002>>, <<43824, 43866>>,
      <<43872, 43880>>, <<43888, 43967>>, <<64256, 64262>>, <<64275, 64279>>,
      <<65313, 65338>>, <<65345, 65370>>, <<66560, 66639>>, <<66736, 66771>>,
      <<66776, 66811>>, <<66928, 66938>>, <<66940, 66954>>, <<66956, 66962>>,
      <<66964, 66965>>, <<66967, 66977>>, <<66979, 66993>>, <<66995, 67001>>,
      <<67003, 67004>>, <<68736, 68786>>, <<68800, 68850>>, <<71840, 71903>>,
      <<93760, 93823>>, <<119808, 119892>>, <<119894, 119964>>, <<119966, 119967>>,
      <<119970, 119970>>, <<119973, 119974>>, <<119977, 119980>>,
      <<119982, 119993>>, <<119995, 119995>>, <<119997, 120003>>,
      <<120005, 120069>>, <<120071, 120074>>, <<120077, 120084>>,
      <<120086, 120092>>, <<120094, 120121>>, <<120123, 120126>>,
      <<120128, 120132>>, <<120134, 120134>>, <<120138, 120144>>,
      <<120146, 120485>>, <<120488, 120512>>, <<120514, 120538>>,
      <<120540, 120570>>, <<120572, 120596>>, <<120598, 120628>>,
      <<120630, 120654>>, <<120656, 120686>>, <<120688, 120712>>,
      <<120714, 120744>>, <<120746, 120770>>, <<120772, 120779>>,
      <<122624, 122633>>, <<122635, 122654>>, <<125184, 125251>>,
      <<127280, 127305>>, <<127312, 127337>>, <<127344, 127369>>
    }
InRanges(c, ranges) == \E r \in ranges : r[1] <= c /\ c <= r[2]

HitsRun(c, r) == r[1] <= c /\ c <= r[2] /\ (c - r[1]) % r[3] = 0

\* what a case mapping makes of one code point
MapCodePoint(c, runs, special) ==
    IF \E p \in special : p[1] = c
    THEN (CHOOSE p \in special : p[1] = c)[2]
    ELSE IF \E r \in runs : HitsRun(c, r)
    THEN <<c + (CHOOSE r \in runs : HitsRun(c, r))[4]>>
    ELSE <<c>>

RECURSIVE MapString(_, _, _)
MapString(s, runs, special) ==
    IF s = <<>> THEN <<>>
    ELSE MapCodePoint(Head(s), runs, special) \o MapString(Tail(s), runs, special)

\* Python: s.upper()
Upper(s) == MapString(s, UpperRuns, UpperSpecial)

\* the nearest position before i (step -1) or after i (step 1) whose code
\* point is not case-ignorable; 0 or Len(s) + 1 when there is none
RECURSIVE SkipIgnorable(_, _, _)
SkipIgnorable(s, i, step) ==
    LET j == i + step
    IN  IF j < 1 \/ j > Len(s) THEN j
        ELSE IF InRanges(s[j], CaseIgnorable) THEN SkipIgnorable(s, j, step)
        ELSE j

\* a capital sigma at i ends a word: a cased letter before it, none after it
FinalSigma(s, i) ==
    LET b == SkipIgnorable(s, i, -1)
        a == SkipIgnorable(s, i, 1)
    IN  /\ b >= 1
        /\ InRanges(s[b], Cased)
        /\ (a > Len(s) \/ ~InRanges(s[a], Cased))

RECURSIVE LowerFrom(_, _)
LowerFrom(s, i) ==
    IF i > Len(s) THEN <<>>
    ELSE (IF s[i] = 931 THEN (IF FinalSigma(s, i) THEN <<962>> ELSE <<963>>)
          ELSE MapCodePoint(s[i], LowerRuns, LowerSpecial))
         \o LowerFrom(s, i + 1)

\* Python: s.lower()
Lower(s) == LowerFrom(s, 1)

\* Python: s.replace(old, '') -- every non-overlapping occurrence, left to right
RECURSIVE Remove(_, _)
Remove(s, old) ==
    IF s = <<>> \/ old = <<>> THEN s
    ELSE IF StartsWith(s, old) THEN Remove(SubSeq(s, Len(old) + 1, Len(s)), old)
    ELSE <<Head(s)>> \o Remove(Tail(s), old)

\* Python: list.remove(x) -- drops the first element equal to x
RECURSIVE ListRemove(_, _)
ListRemove(list, e) ==
    IF list = <<>> THEN <<>>
    ELSE IF Head(list) = e THEN Tail(list)
    ELSE <<Head(list)>> \o ListRemove(Tail(list), e)

(***************************************************************************)
(* datetime.now().strftime("%Y%m%d_%H%M%S").  A clock reading is a number  *)
(* of seconds counted from midnight of BaseDate.                           *)
(***************************************************************************)
BaseDate == [y |-> 2025, m |-> 11, d |-> 25]

IsLeap(y) == (y % 4 = 0 /\ y % 100 # 0) \/ y % 400 = 0

DaysInMonth(y, m) ==
    IF m = 2 THEN (IF IsLeap(y) THEN 29 ELSE 28)
    ELSE IF m \in {4, 6, 9, 11} THEN 30 ELSE 31

NextDay(date) ==
    IF date.d < DaysInMonth(date.y, date.m) THEN [date EXCEPT !.d = @ + 1]
    ELSE IF date.m < 12 THEN [date EXCEPT !.m = @ + 1, !.d = 1]
    ELSE [y |-> date.y + 1, m |-> 1, d |-> 1]

RECURSIVE DateAdd(_, _)
DateAdd(date, days) == IF days = 0 THEN date ELSE DateAdd(NextDay(date), days - 1)

\* the decimal digit n as a str
Digit(n) == <<48 + n>>

\* n in decimal, zero-padded to `width` digits
RECURSIVE Pad(_, _)
Pad(n, width) ==
    IF width <= 1 /\ n < 10 THEN Digit(n)
    ELSE Pad(n \div 10, width - 1) \o Digit(n % 10)

FormatMSS(sec) == Pad((sec % 3600) \div 60, 2) \o Pad(sec % 60, 2)

\* variant: the format stops at the minute ("%Y%m%d_%H%M")
StrftimeToMinute(sec) ==
    LET date == DateAdd(BaseDate, sec \div 86400)
        tod  == sec % 86400
    IN  Pad(date.y, 4) \o Pad(date.m, 2) \o Pad(date.d, 2) \o S("_")
        \o Pad(tod \div 3600, 2) \o Pad((tod % 3600) \div 60, 2)

Strftime(sec) ==
    LET date == DateAdd(BaseDate, sec \div 86400)
        tod  == sec % 86400
    IN  Pad(date.y, 4) \o Pad(date.m, 2) \o Pad(date.d, 2) \o S("_")
        \o Pad(tod \div 3600, 2) \o FormatMSS(tod)

(***************************************************************************)
(* os.environ and os.getenv.                                               *)
(***************************************************************************)
EmptyEnv == [k \in {} |-> <<>>]

\* Python: not os.getenv(k)  (absent, or present and empty)
Falsy(e, k) == k \notin DOMAIN e \/ e[k] = <<>>

Getenv(e, k, default) == IF k \in DOMAIN e THEN e[k] ELSE default

\* env = os.environ.copy(); env['PGPASSWORD'] = pw
EnvOverlay(e, pw) ==
    [k \in DOMAIN e \cup {"PGPASSWORD"} |-> IF k = "PGPASSWORD" THEN pw ELSE e[k]]

(***************************************************************************)
(* The backup script: command construction.                                *)
(***************************************************************************)
PG_DUMP == S("/opt/homebrew/opt/postgresql@15/bin/pg_dump")

HostFromUrl(supabase_url) ==
    S("db.") \o Remove(Remove(supabase_url, S("https://")), S("http://"))

SchemaFile(ts) == S("schema_backup_") \o ts \o S(".sql")
DataFile(ts) == S("complete_backup_") \o ts \o S(".sql")

BuildSchemaCmd(h, schema_file) ==
    << PG_DUMP,
       S("--host=") \o h,
       S("--port=5432"),
       S("--username=postgres"),
       S("--dbname=postgres"),
       S("--schema-only"),
       S("--no-owner"),
       S("--no-privileges"),
       S("--clean"),
       S("--if-exists"),
       S("--no-sync"),
       S("--file=") \o schema_file >>

\* variant: the schema-only flag is not removed from the copy
BuildDataCmdKeepingFlag(c, data_file) ==
    [c EXCEPT ![Len(c)] = S("--file=") \o data_file]

BuildDataCmd(c, data_file) ==
    LET r == ListRemove(c, S("--schema-only"))
    IN  [r EXCEPT ![Len(r)] = S("--file=") \o data_file]

\* the schema run counts as a success: zero exit and a non-empty file
SchemaSucceeded(returncode, file_size) == returncode = 0 /\ file_size > 0

\* the operator's answer to "Do you also want a backup WITH data? (y/n)"
WantsData(line) == Lower(Strip(line)) = S("y")

(***************************************************************************)
(* The restore script: configuration, target file, confirmation, command.  *)
(***************************************************************************)
DEFAULT_RESTORE_FILE == S("full_backup_20251125_000420.sql")
PSQL == S("/opt/homebrew/opt/postgresql@15/bin/psql")
RestoreTimeout == 300

None == [none |-> TRUE]

get_config(e) ==
    IF Falsy(e, "DB_HOST") \/ Falsy(e, "DB_USER") \/ Falsy(e, "PASS") THEN None
    ELSE [host     |-> e["DB_HOST"],
          port     |-> Getenv(e, "DB_PORT", S("6543")),
          user     |-> e["DB_USER"],
          password |-> e["PASS"]]

ResolveRestoreFile(line) ==
    IF Strip(line) = <<>> THEN DEFAULT_RESTORE_FILE ELSE Strip(line)

\* variant: the existence check is skipped
PathExistsUnchecked(files, path) == TRUE

\* os.path.exists(restore_file)
PathExists(files, path) == path \in DOMAIN files

\* variant: the confirmation is stripped before it is compared
ConfirmedStripped(line) == Upper(Strip(line)) = S("YES")

Confirmed(line) == Upper(line) = S("YES")

ResolvePsql(inst) == IF PSQL \in inst THEN PSQL ELSE S("psql")

\* variant: the password is also handed over on the command line
BuildRestoreCmdWithPassword(path, cfg, file) ==
    << path,
       S("--host=") \o cfg.host,
       S("--port=") \o cfg.port,
       S("--username=") \o cfg.user,
       S("--password=") \o cfg.password,
       S("--dbname=postgres"),
       S("--file=") \o file,
       S("--echo-errors"),
       S("--quiet") >>

BuildRestoreCmd(path, cfg, file) ==
    << path,
       S("--host=") \o cfg.host,
       S("--port=") \o cfg.port,
       S("--username=") \o cfg.user,
       S("--dbname=postgres"),
       S("--file=") \o file,
       S("--echo-errors"),
       S("--quiet") >>

(***************************************************************************)
(* Reports written to the console (one tag per print of interest).         *)
(***************************************************************************)
MsgNoUrl         == S("SUPABASE_URL not found in .env")
MsgCreating      == S("Creating schema backup")
MsgSchemaDone    == S("Schema backup completed")
MsgSchemaSuccess == S("SUCCESS! Your complete database schema is backed up.")
MsgEmptyFile     == S("Backup file is empty. Check your credentials.")
MsgDumpFailed    == S("pg_dump failed")
MsgWrongPassword == S("Wrong password.")
MsgConnFailed    == S("Connection failed.")
MsgDumpNotFound  == S("pg_dump not found. Install PostgreSQL tools")
MsgBackupFailed  == S("Backup failed")
MsgCreatingData  == S("Creating complete backup")
MsgDataDone      == S("Complete backup finished")
MsgDataFailed    == S("Data backup failed")
MsgConfigError   == S("Configuration Error: Missing DB_HOST, DB_USER, or PASS in .env file.")
MsgFileNotFound  == S("File not found")
MsgWarning       == S("WARNING: This operation will OVERWRITE existing data!")
MsgCancelled     == S("Restore cancelled by user.")
MsgRestoring     == S("Restoring")
MsgComplete      == S("RESTORE COMPLETE!")
MsgPsqlFailed    == S("psql failed: Restore attempt failed with return code")
MsgPsqlNotFound  == S("Could not find psql")
MsgTimedOut      == S("Restore timed out after 300 seconds (5 minutes).")
MsgUnexpected    == S("An unexpected error occurred")
\* written by the interpreter when an exception leaves the script
MsgTraceback     == S("Traceback (most recent call last):")

(***************************************************************************)
(* Inputs: environments (after load_dotenv), console lines, and what the   *)
(* external programs and the operating system may answer.  Besides a line, *)
(* every console read may find the input at its end (EOFError).            *)
(***************************************************************************)
BackupEnvs ==
    { EmptyEnv,
      "SUPABASE_URL" :> <<>>,
      "SUPABASE_URL" :> S("https://abc.supabase.co"),
      ("SUPABASE_URL" :> S("http://abc.supabase.co")) @@ ("PGPASSWORD" :> S("old")) }

RestoreEnvs ==
    { ("DB_HOST" :> S("db.abc.supabase.co")) @@ ("DB_PORT" :> S("5432"))
          @@ ("DB_USER" :> S("postgres.abc")) @@ ("PASS" :> S("s3cret")),
      ("DB_HOST" :> S("db.abc.supabase.co")) @@ ("DB_USER" :> S("postgres"))
          @@ ("PASS" :> S("postgres")) @@ ("PGPASSWORD" :> S("old")),
      ("DB_PORT" :> S("5432")) @@ ("DB_USER" :> S("postgres.abc")) @@ ("PASS" :> S("s3cret")),
      ("DB_HOST" :> S("db.abc.supabase.co")) @@ ("DB_USER" :> <<>>) @@ ("PASS" :> S("s3cret")),
      ("DB_HOST" :> S("db.abc.supabase.co")) @@ ("DB_USER" :> S("postgres.abc")),
      ("DB_HOST" :> S("db.abc.supabase.co")) @@ ("DB_USER" :> S("postgres.abc"))
          @@ ("PASS" :> <<>>) }

PasswordLines == { S("  postgres "), <<160, 32>> }
DataLines     == { <<11, 89, 160>>, S("n"), S("yes") }
ConfirmLines  ==
    { S("YES"), S("Yes"), S("ye") \o <<383>>, <<>>, S("no"), S(" YES"), S("YESS"),
      S("ye") \o <<223>> }
FileLines     ==
    { <<>>, <<11, 32>>, DEFAULT_RESTORE_FILE, <<11>> \o S(" dump.sql") \o <<28>>,
      S("missing.sql") }

\* a file: its size and the run that wrote it (run 0: it was there before)
OldFile == [size |-> 4096, run |-> 0]
InitialFiles ==
    { [k \in {} |-> OldFile],
      (DEFAULT_RESTORE_FILE :> OldFile) @@ (S("dump.sql") :> OldFile) }

\* the executables that exist: absolute paths, and bare names found on PATH
Installations == { {PG_DUMP, PSQL}, {PG_DUMP, S("psql")}, {} }

\* subprocess.run(pg_dump ...): an exception raised before the child runs
\* ("spawn"), one raised after it ran ("decode"), or a completed process
DumpResults ==
    { [exc |-> "none",   returncode |-> 0, wrote |-> "data",  stderr |-> <<>>],
      [exc |-> "none",   returncode |-> 0, wrote |-> "empty", stderr |-> <<>>],
      [exc |-> "none",   returncode |-> 0, wrote |-> "none",  stderr |-> <<>>],
      [exc |-> "none",   returncode |-> 1, wrote |-> "none",
       stderr |-> S("FATAL:  password authentication failed for user")],
      [exc |-> "none",   returncode |-> 1, wrote |-> "none",
       stderr |-> S("pg_dump: error: could not connect to server")],
      [exc |-> "none",   returncode |-> 1, wrote |-> "empty",
       stderr |-> S("pg_dump: error: server version mismatch")],
      [exc |-> "spawn",  returncode |-> 0, wrote |-> "none",  stderr |-> <<>>],
      [exc |-> "decode", returncode |-> 0, wrote |-> "data",  stderr |-> <<>>] }

\* subprocess.run(psql ..., timeout=300): as above, with the child's duration
PsqlResults ==
    { [exc |-> "none",   returncode |-> 0, duration |-> 5,
       stdout |-> <<>>, stderr |-> <<>>],
      [exc |-> "none",   returncode |-> 0, duration |-> RestoreTimeout - 1,
       stdout |-> <<>>, stderr |-> <<>>],
      [exc |-> "none",   returncode |-> 1, duration |-> 5,
       stdout |-> S(" ERROR:  relation exists") \o <<10>>, stderr |-> <<>>],
      [exc |-> "none",   returncode |-> 2, duration |-> 5,
       stdout |-> <<>>, stderr |-> S("psql: error: password authentication failed") \o <<10>>],
      [exc |-> "none",   returncode |-> 0, duration |-> RestoreTimeout + 1,
       stdout |-> <<>>, stderr |-> <<>>],
      [exc |-> "none",   returncode |-> 1, duration |-> RestoreTimeout + 1,
       stdout |-> <<>>, stderr |-> S("psql: error")],
      [exc |-> "spawn",  returncode |-> 0, duration |-> 0,
       stdout |-> <<>>, stderr |-> <<>>],
      [exc |-> "decode", returncode |-> 0, duration |-> 5,
       stdout |-> <<>>, stderr |-> <<>>] }

(***************************************************************************)
(* State.                                                                  *)
(***************************************************************************)
VARIABLES
    run,          \* number of script runs started so far
    tool,         \* the script of the current run: "idle", "backup", "restore"
    pc,           \* the current run's position
    environ,      \* os.environ of the current run (after load_dotenv)
    fs,           \* the dump files on disk: name -> [size, run]
    installed,    \* the executables that exist
    now,          \* the clock, in ticks
    produced,     \* the files the backup runs wrote: [run, sec, file]
    lines,        \* the console lines read in this run: [prompt, line]
    out,          \* the reports written in this run
    calls,        \* the subprocess.run calls of this run
    host,         \* backup: host
    password,     \* backup: password
    timestamp,    \* backup: timestamp
    cmd,          \* both: cmd
    cmd_data,     \* backup: cmd_data
    env,          \* both: env, the overlay handed to the subprocess
    config,       \* restore: config
    restore_file, \* restore: restore_file
    psql_path     \* restore: psql_path

vars == << run, tool, pc, environ, fs, installed, now, produced, lines, out, calls,
           host, password, timestamp, cmd, cmd_data, env, config, restore_file,
           psql_path >>

locals == << host, password, timestamp, cmd, cmd_data, env, config, restore_file,
             psql_path >>

world == << fs, installed, now, produced >>

Init ==
    /\ run = 0
    /\ tool = "idle"
    /\ pc = "idle"
    /\ environ = EmptyEnv
    /\ fs \in InitialFiles
    /\ installed \in Installations
    /\ now = StartSecond * TicksPerSecond
    /\ produced = {}
    /\ lines = <<>>
    /\ out = <<>>
    /\ calls = <<>>
    /\ host = <<>>
    /\ password = <<>>
    /\ timestamp = <<>>
    /\ cmd = <<>>
    /\ cmd_data = <<>>
    /\ env = EmptyEnv
    /\ config = None
    /\ restore_file = <<>>
    /\ psql_path = <<>>

\* a new process: nothing is kept from the run before but the world
FreshRun(script, e) ==
    /\ pc \in {"idle", "done"}
    /\ run < MaxRuns
    /\ run' = run + 1
    /\ tool' = script
    /\ environ' = e
    /\ lines' = <<>>
    /\ calls' = <<>>
    /\ cmd' = <<>>
    /\ cmd_data' = <<>>
    /\ env' = EmptyEnv
    /\ password' = <<>>
    /\ timestamp' = <<>>
    /\ restore_file' = <<>>
    /\ psql_path' = <<>>

\* one subprocess.run call: its arguments, whether the child was started, how
\* the call ended and how long the child needed (0: not observed)
Call(mode, argv, overlay, timeout, started, result, duration) ==
    [mode |-> mode, cmd |-> argv, env |-> overlay, timeout |-> timeout,
     started |-> started, result |-> result, duration |-> duration]

\* what the dump utility leaves on disk under --file=name
WriteFile(files, name, wrote) ==
    IF wrote = "none" THEN files
    ELSE [f \in DOMAIN files \cup {name} |->
            IF f = name THEN [size |-> IF wrote = "empty" THEN 0 ELSE 2048, run |-> run]
            ELSE files[f]]

Produce(name, wrote) ==
    IF wrote = "none" THEN produced
    ELSE produced \cup {[run |-> run, sec |-> now \div TicksPerSecond, file |-> name]}

(***************************************************************************)
(* direct_backup.py: backup_supabase_schema, one action per blocking step. *)
(***************************************************************************)
\* lines 20-27 (and the guidance printed by get_db_password)
BackupStart ==
    \E e \in BackupEnvs :
        /\ FreshRun("backup", e)
        /\ config' = None
        /\ IF Falsy(e, "SUPABASE_URL")
           THEN /\ out' = <<MsgNoUrl>>
                /\ host' = <<>>
                /\ pc' = "done"
           ELSE /\ out' = <<>>
                /\ host' = HostFromUrl(e["SUPABASE_URL"])
                /\ pc' = "b_password"
        /\ UNCHANGED world

\* lines 14-15 and 30-57: the password is read, then the clock, and the
\* schema command and the environment overlay are built
BackupEnterPassword ==
    /\ tool = "backup"
    /\ pc = "b_password"
    /\ \/ \E line \in PasswordLines, d \in 1..MaxAdvance :
            /\ lines' = Append(lines, [prompt |-> "password", line |-> line])
            /\ password' = Strip(line)
            /\ now' = now + d
            /\ timestamp' = Strftime(now' \div TicksPerSecond)
            /\ cmd' = BuildSchemaCmd(host, SchemaFile(timestamp'))
            /\ env' = EnvOverlay(environ, password')
            /\ out' = Append(out, MsgCreating)
            /\ pc' = "b_schema"
       \/ \* input() raises EOFError outside the try block: the script dies
          /\ out' = Append(out, MsgTraceback)
          /\ pc' = "done"
          /\ UNCHANGED << lines, password, now, timestamp, cmd, env >>
    /\ UNCHANGED << run, tool, environ, fs, installed, produced, calls, host,
                    cmd_data, config, restore_file, psql_path >>

\* lines 59-79 and 98-114: the schema run and the handling of its result
BackupSchemaRun ==
    \E res \in DumpResults :
        /\ tool = "backup"
        /\ pc = "b_schema"
        /\ LET schema_file == SchemaFile(timestamp)
               found     == cmd[1] \in installed
               started   == found /\ res.exc # "spawn"
               files     == IF started THEN WriteFile(fs, schema_file, res.wrote) ELSE fs
               completed == started /\ res.exc = "none"
               zero      == completed /\ res.returncode = 0
               sized     == zero /\ schema_file \in DOMAIN files
               file_size == IF sized THEN files[schema_file].size ELSE 0
               result    == IF ~found THEN "FileNotFoundError"
                            ELSE IF ~completed THEN "Exception"
                            ELSE IF zero THEN "zero" ELSE "nonzero"
               report    ==
                   IF ~found THEN <<MsgDumpNotFound>>
                   ELSE IF ~completed THEN <<MsgBackupFailed>>
                   ELSE IF zero THEN
                        <<MsgSchemaDone>> \o
                        (IF ~sized THEN <<MsgDumpNotFound>>
                         ELSE IF file_size > 0 THEN <<MsgSchemaSuccess>>
                         ELSE <<MsgEmptyFile>>)
                   ELSE <<MsgDumpFailed>> \o
                        (IF Contains(res.stderr, S("password authentication failed"))
                         THEN <<MsgWrongPassword>>
                         ELSE IF Contains(res.stderr, S("could not connect"))
                         THEN <<MsgConnFailed>>
                         ELSE <<>>)
           IN  /\ fs' = files
               /\ produced' = IF started THEN Produce(schema_file, res.wrote) ELSE produced
               /\ calls' = Append(calls, Call("schema", cmd, env, 0, started, result, 0))
               /\ out' = out \o report
               /\ pc' = IF sized /\ SchemaSucceeded(res.returncode, file_size)
                        THEN "b_ask_data" ELSE "done"
        /\ UNCHANGED << run, tool, environ, installed, now, lines, locals >>

\* lines 81-89: the operator is asked whether a backup with data is wanted
BackupAnswerData ==
        /\ tool = "backup"
        /\ pc = "b_ask_data"
        /\ \/ \E line \in DataLines :
                /\ lines' = Append(lines, [prompt |-> "data", line |-> line])
                /\ IF WantsData(line)
                   THEN /\ cmd_data' = BuildDataCmd(cmd, DataFile(timestamp))
                        /\ out' = Append(out, MsgCreatingData)
                        /\ pc' = "b_data"
                   ELSE /\ cmd_data' = cmd_data
                        /\ out' = out
                        /\ pc' = "done"
           \/ \* input() raises EOFError inside the try block (line 113)
              /\ out' = Append(out, MsgBackupFailed)
              /\ pc' = "done"
              /\ UNCHANGED << lines, cmd_data >>
        /\ UNCHANGED << run, tool, environ, calls, host, password, timestamp, cmd,
                        env, config, restore_file, psql_path, world >>

\* lines 91-97 and 108-114: the run with data and the handling of its result
BackupDataRun ==
    \E res \in DumpResults :
        /\ tool = "backup"
        /\ pc = "b_data"
        /\ LET data_file == DataFile(timestamp)
               found     == cmd_data[1] \in installed
               started   == found /\ res.exc # "spawn"
               files     == IF started THEN WriteFile(fs, data_file, res.wrote) ELSE fs
               completed == started /\ res.exc = "none"
               zero      == completed /\ res.returncode = 0
               sized     == zero /\ data_file \in DOMAIN files
               result    == IF ~found THEN "FileNotFoundError"
                            ELSE IF ~completed THEN "Exception"
                            ELSE IF zero THEN "zero" ELSE "nonzero"
               report    == IF ~found THEN <<MsgDumpNotFound>>
                            ELSE IF ~completed THEN <<MsgBackupFailed>>
                            ELSE IF ~zero THEN <<MsgDataFailed>>
                            ELSE IF sized THEN <<MsgDataDone>>
                            ELSE <<MsgDumpNotFound>>
           IN  /\ fs' = files
               /\ produced' = IF started THEN Produce(data_file, res.wrote) ELSE produced
               /\ calls' = Append(calls, Call("data", cmd_data, env, 0, started, result, 0))
               /\ out' = out \o report
               /\ pc' = "done"
        /\ UNCHANGED << run, tool, environ, installed, now, lines, locals >>

(***************************************************************************)
(* direct_restore.py: restore_supabase_data, one action per blocking step. *)
(***************************************************************************)
\* lines 34-36 with get_config
RestoreStart ==
    \E e \in RestoreEnvs :
        /\ FreshRun("restore", e)
        /\ host' = <<>>
        /\ config' = get_config(e)
        /\ IF config' = None
           THEN /\ out' = <<MsgConfigError>>
                /\ pc' = "done"
           ELSE /\ out' = <<>>
                /\ pc' = "AwaitingFile"
        /\ UNCHANGED world

\* lines 39-49: the operator names the dump file
RestoreEnterFile ==
        /\ tool = "restore"
        /\ pc = "AwaitingFile"
        /\ \/ \E line \in FileLines \cup DOMAIN fs :
                /\ lines' = Append(lines, [prompt |-> "file", line |-> line])
                /\ restore_file' = ResolveRestoreFile(line)
                /\ IF ~PathExists(fs, restore_file')
                   THEN /\ out' = Append(out, MsgFileNotFound)
                        /\ pc' = "done"
                   ELSE /\ out' = Append(out, MsgWarning)
                        /\ pc' = "AwaitingConfirmation"
           \/ \* input() raises EOFError: the script dies
              /\ out' = Append(out, MsgTraceback)
              /\ pc' = "done"
              /\ UNCHANGED << lines, restore_file >>
        /\ UNCHANGED << run, tool, environ, calls, host, password, timestamp, cmd,
                        cmd_data, env, config, psql_path, world >>

\* lines 51-79: the confirmation; on YES the command and overlay are built
RestoreConfirm ==
        /\ tool = "restore"
        /\ pc = "AwaitingConfirmation"
        /\ \/ \E line \in ConfirmLines :
                /\ lines' = Append(lines, [prompt |-> "confirm", line |-> line])
                /\ IF ~Confirmed(line)
                   THEN /\ out' = Append(out, MsgCancelled)
                        /\ pc' = "done"
                        /\ UNCHANGED << psql_path, cmd, env >>
                   ELSE /\ out' = Append(out, MsgRestoring)
                        /\ psql_path' = ResolvePsql(installed)
                        /\ cmd' = BuildRestoreCmd(psql_path', config, restore_file)
                        /\ env' = EnvOverlay(environ, config.password)
                        /\ pc' = "Executing"
           \/ \* input() raises EOFError: the script dies
              /\ out' = Append(out, MsgTraceback)
              /\ pc' = "done"
              /\ UNCHANGED << lines, psql_path, cmd, env >>
        /\ UNCHANGED << run, tool, environ, calls, host, password, timestamp,
                        cmd_data, config, restore_file, world >>

\* variant: subprocess.run is called without a timeout
RestoreResultUnbounded(found, res) ==
    IF ~found THEN "FileNotFoundError"
    ELSE IF res.exc # "none" THEN "Exception"
    ELSE IF res.returncode = 0 THEN "zero" ELSE "nonzero"

\* lines 84 and 99-104: how subprocess.run ends
RestoreResult(found, res) ==
    IF ~found THEN "FileNotFoundError"
    ELSE IF res.exc = "spawn" THEN "Exception"
    ELSE IF res.duration > RestoreTimeout THEN "TimeoutExpired"
    ELSE IF res.exc # "none" THEN "Exception"
    ELSE IF res.returncode = 0 THEN "zero" ELSE "nonzero"

\* variant: the success report is written after the failure branch as well
RestoreReportFallingThrough(result, res) ==
    IF result = "FileNotFoundError" THEN <<MsgPsqlNotFound>>
    ELSE IF result = "TimeoutExpired" THEN <<MsgTimedOut>>
    ELSE IF result = "Exception" THEN <<MsgUnexpected>>
    ELSE IF result = "zero" THEN <<MsgComplete>>
    ELSE <<MsgPsqlFailed, MsgComplete>>

\* lines 86-105: what is reported for it
RestoreReport(result, res) ==
    IF result = "FileNotFoundError" THEN <<MsgPsqlNotFound>>
    ELSE IF result = "TimeoutExpired" THEN <<MsgTimedOut>>
    ELSE IF result = "Exception" THEN <<MsgUnexpected>>
    ELSE IF result = "zero" THEN <<MsgComplete>>
    ELSE <<MsgPsqlFailed>>
         \o (IF res.stdout # <<>> THEN <<Strip(res.stdout)>> ELSE <<>>)
         \o (IF res.stderr # <<>> THEN <<Strip(res.stderr)>> ELSE <<>>)

\* lines 82-105: the restore run, bounded by the timeout, and its report
RestoreExecute ==
    \E res \in PsqlResults :
        /\ tool = "restore"
        /\ pc = "Executing"
        /\ LET found   == cmd[1] \in installed
               started == found /\ res.exc # "spawn"
               result  == RestoreResult(found, res)
           IN  /\ calls' = Append(calls, Call("restore", cmd, env, RestoreTimeout,
                                              started, result, res.duration))
               /\ out' = out \o RestoreReport(result, res)
               /\ pc' = "done"
        /\ UNCHANGED << run, tool, environ, lines, locals, world >>

Next ==
    \/ BackupStart
    \/ BackupEnterPassword
    \/ BackupSchemaRun
    \/ BackupAnswerData
    \/ BackupDataRun
    \/ RestoreStart
    \/ RestoreEnterFile
    \/ RestoreConfirm
    \/ RestoreExecute

Spec == Init /\ [][Next]_vars

\* every console read is answered and every subprocess call returns (the
\* restore call at the latest when its timeout expires)
FairSpec ==
    /\ Spec
    /\ WF_vars(BackupEnterPassword)
    /\ WF_vars(BackupSchemaRun)
    /\ WF_vars(BackupAnswerData)
    /\ WF_vars(BackupDataRun)
    /\ WF_vars(RestoreEnterFile)
    /\ WF_vars(RestoreConfirm)
    /\ WF_vars(RestoreExecute)

(***************************************************************************)
(* Reading the state of a run.                                             *)
(***************************************************************************)
Last(seq) == seq[Len(seq)]

Reported(msg) == \E i \in 1..Len(out) : out[i] = msg

Asked(prompt) == \E i \in 1..Len(lines) : lines[i].prompt = prompt

\* the line the operator typed at a prompt of this run
LineAt(prompt) == lines[CHOOSE i \in 1..Len(lines) : lines[i].prompt = prompt].line

StartedCalls == { i \in 1..Len(calls) : calls[i].started }

\* how many of the reports `msgs` this run has written
CountReports(msgs) == Cardinality({ i \in 1..Len(out) : out[i] \in msgs })

\* Unicode case folding (caseless matching): runs <<first, last, step, offset>>
FoldRuns ==
    {
      <<65, 90, 1, 32>>, <<181, 181, 1, 775>>, <<192, 214, 1, 32>>,
      <<216, 222, 1, 32>>, <<256, 302, 2, 1>>, <<306, 310, 2, 1>>,
      <<313, 327, 2, 1>>, <<330, 374, 2, 1>>, <<376, 376, 1, -121>>,
      <<377, 381, 2, 1>>, <<383, 383, 1, -268>>, <<385, 385, 1, 210>>,
      <<386, 388, 2, 1>>, <<390, 390, 1, 206>>, <<391, 391, 1, 1>>,
      <<393, 394, 1, 205>>, <<395, 395, 1, 1>>, <<398, 398, 1, 79>>,
      <<399, 399, 1, 202>>, <<400, 400, 1, 203>>, <<401, 401, 1, 1>>,
      <<403, 403, 1, 205>>, <<404, 404, 1, 207>>, <<406, 406, 1, 211>>,
      <<407, 407, 1, 209>>, <<408, 408, 1, 1>>, <<412, 412, 1, 211>>,
      <<413, 413, 1, 213>>, <<415, 415, 1, 214>>, <<416, 420, 2, 1>>,
      <<422, 422, 1, 218>>, <<423, 423, 1, 1>>, <<425, 425, 1, 218>>,
      <<428, 428, 1, 1>>, <<430, 430, 1, 218>>, <<431, 431, 1, 1>>,
      <<433, 434, 1, 217>>, <<435, 437, 2, 1>>, <<439, 439, 1, 219>>,
      <<440, 440, 1, 1>>, <<444, 444, 1, 1>>, <<452, 452, 1, 2>>,
      <<453, 453, 1, 1>>, <<455, 455, 1, 2>>, <<456, 456, 1, 1>>,
      <<458, 458, 1, 2>>, <<459, 475, 2, 1>>, <<478, 494, 2, 1>>,
      <<497, 497, 1, 2>>, <<498, 500, 2, 1>>, <<502, 502, 1, -97>>,
      <<503, 503, 1, -56>>, <<504, 542, 2, 1>>, <<544, 544, 1, -130>>,
      <<546, 562, 2, 1>>, <<570, 570, 1, 10795>>, <<571, 571, 1, 1>>,
      <<573, 573, 1, -163>>, <<574, 574, 1, 10792>>, <<577, 577, 1, 1>>,
      <<579, 579, 1, -195>>, <<580, 580, 1, 69>>, <<581, 581, 1, 71>>,
      <<582, 590, 2, 1>>, <<837, 837, 1, 116>>, <<880, 882, 2, 1>>,
      <<886, 886, 1, 1>>, <<895, 895, 1, 116>>, <<902, 902, 1, 38>>,
      <<904, 906, 1, 37>>, <<908, 908, 1, 64>>, <<910, 911, 1, 63>>,
      <<913, 929, 1, 32>>, <<931, 939, 1, 32>>, <<962, 962, 1, 1>>,
      <<975, 975, 1, 8>>, <<976, 976, 1, -30>>, <<977, 977, 1, -25>>,
      <<981, 981, 1, -15>>, <<982, 982, 1, -22>>, <<984, 1006, 2, 1>>,
      <<1008, 1008, 1, -54>>, <<1009, 1009, 1, -48>>, <<1012, 1012, 1, -60>>,
      <<1013, 1013, 1, -64>>, <<1015, 1015, 1, 1>>, <<1017, 1017, 1, -7>>,
      <<1018, 1018, 1, 1>>, <<1021, 1023, 1, -130>>, <<1024, 1039, 1, 80>>,
      <<1040, 1071, 1, 32>>, <<1120, 1152, 2, 1>>, <<1162, 1214, 2, 1>>,
      <<1216, 1216, 1, 15>>, <<1217, 1229, 2, 1>>, <<1232, 1326, 2, 1>>,
      <<1329, 1366, 1, 48>>, <<4256, 4293, 1, 7264>>, <<4295, 4295, 1, 7264>>,
      <<4301, 4301, 1, 7264>>, <<5112, 5117, 1, -8>>, <<7296, 7296, 1, -6222>>,
      <<7297, 7297, 1, -6221>>, <<7298, 7298, 1, -6212>>, <<7299, 7300, 1, -6210>>,
      <<7301, 7301, 1, -6211>>, <<7302, 7302, 1, -6204>>, <<7303, 7303, 1, -6180>>,
      <<7304, 7304, 1, 35267>>, <<7312, 7354, 1, -3008>>, <<7357, 7359, 1, -3008>>,
      <<7680, 7828, 2, 1>>, <<7835, 7835, 1, -58>>, <<7840, 7934, 2, 1>>,
      <<7944, 7951, 1, -8>>, <<7960, 7965, 1, -8>>, <<7976, 7983, 1, -8>>,
      <<7992, 7999, 1, -8>>, <<8008, 8013, 1, -8>>, <<8025, 8031, 2, -8>>,
      <<8040, 8047, 1, -8>>, <<8120, 8121, 1, -8>>, <<8122, 8123, 1, -74>>,
      <<8126, 8126, 1, -7173>>, <<8136, 8139, 1, -86>>, <<8152, 8153, 1, -8>>,
      <<8154, 8155, 1, -100>>, <<8168, 8169, 1, -8>>, <<8170, 8171, 1, -112>>,
      <<8172, 8172, 1, -7>>, <<8184, 8185, 1, -128>>, <<8186, 8187, 1, -126>>,
      <<8486, 8486, 1, -7517>>, <<8490, 8490, 1, -8383>>, <<8491, 8491, 1, -8262>>,
      <<8498, 8498, 1, 28>>, <<8544, 8559, 1, 16>>, <<8579, 8579, 1, 1>>,
      <<9398, 9423, 1, 26>>, <<11264, 11311, 1, 48>>, <<11360, 11360, 1, 1>>,
      <<11362, 11362, 1, -10743>>, <<11363, 11363, 1, -3814>>,
      <<11364, 11364, 1, -10727>>, <<11367, 11371, 2, 1>>,
      <<11373, 11373, 1, -10780>>, <<11374, 11374, 1, -10749>>,
      <<11375, 11375, 1, -10783>>, <<11376, 11376, 1, -10782>>,
      <<11378, 11378, 1, 1>>, <<11381, 11381, 1, 1>>, <<11390, 11391, 1, -10815>>,
      <<11392, 11490, 2, 1>>, <<11499, 11501, 2, 1>>, <<11506, 11506, 1, 1>>,
      <<42560, 42604, 2, 1>>, <<42624, 42650, 2, 1>>, <<42786, 42798, 2, 1>>,
      <<42802, 42862, 2, 1>>, <<42873, 42875, 2, 1>>, <<42877, 42877, 1, -35332>>,
      <<42878, 42886, 2, 1>>, <<42891, 42891, 1, 1>>, <<42893, 42893, 1, -42280>>,
      <<42896, 42898, 2, 1>>, <<42902, 42920, 2, 1>>, <<42922, 42922, 1, -42308>>,
      <<42923, 42923, 1, -42319>>, <<42924, 42924, 1, -42315>>,
      <<42925, 42925, 1, -42305>>, <<42926, 42926, 1, -42308>>,
      <<42928, 42928, 1, -42258>>, <<42929, 42929, 1, -42282>>,
      <<42930, 42930, 1, -42261>>, <<42931, 42931, 1, 928>>,
      <<42932, 42946, 2, 1>>, <<42948, 42948, 1, -48>>,
      <<42949, 42949, 1, -42307>>, <<42950, 42950, 1, -35384>>,
      <<42951, 42953, 2, 1>>, <<42960, 42960, 1, 1>>, <<42966, 42968, 2, 1>>,
      <<42997, 42997, 1, 1>>, <<43888, 43967, 1, -38864>>, <<65313, 65338, 1, 32>>,
      <<66560, 66599, 1, 40>>, <<66736, 66771, 1, 40>>, <<66928, 66964, 2, 39>>,
      <<66929, 66937, 2, 39>>, <<66941, 66953, 2, 39>>, <<66957, 66961, 2, 39>>,
      <<66965, 66965, 1, 39>>, <<68736, 68786, 1, 64>>, <<71840, 71871, 1, 32>>,
      <<93760, 93791, 1, 32>>, <<125184, 125217, 1, 34>>
    }

\* Unicode case folding: the code points folded to several
FoldSpecial ==
    {
      <<223, <<115, 115>>>>, <<304, <<105, 775>>>>, <<329, <<700, 110>>>>,
      <<496, <<106, 780>>>>, <<912, <<953, 776, 769>>>>,
      <<944, <<965, 776, 769>>>>, <<1415, <<1381, 1410>>>>, <<7830, <<104, 817>>>>,
      <<7831, <<116, 776>>>>, <<7832, <<119, 778>>>>, <<7833, <<121, 778>>>>,
      <<7834, <<97, 702>>>>, <<7838, <<115, 115>>>>, <<8016, <<965, 787>>>>,
      <<8018, <<965, 787, 768>>>>, <<8020, <<965, 787, 769>>>>,
      <<8022, <<965, 787, 834>>>>, <<8064, <<7936, 953>>>>,
      <<8065, <<7937, 953>>>>, <<8066, <<7938, 953>>>>, <<8067, <<7939, 953>>>>,
      <<8068, <<7940, 953>>>>, <<8069, <<7941, 953>>>>, <<8070, <<7942, 953>>>>,
      <<8071, <<7943, 953>>>>, <<8072, <<7936, 953>>>>, <<8073, <<7937, 953>>>>,
      <<8074, <<7938, 953>>>>, <<8075, <<7939, 953>>>>, <<8076, <<7940, 953>>>>,
      <<8077, <<7941, 953>>>>, <<8078, <<7942, 953>>>>, <<8079, <<7943, 953>>>>,
      <<8080, <<7968, 953>>>>, <<8081, <<7969, 953>>>>, <<8082, <<7970, 953>>>>,
      <<8083, <<7971, 953>>>>, <<8084, <<7972, 953>>>>, <<8085, <<7973, 953>>>>,
      <<8086, <<7974, 953>>>>, <<8087, <<7975, 953>>>>, <<8088, <<7968, 953>>>>,
      <<8089, <<7969, 953>>>>, <<8090, <<7970, 953>>>>, <<8091, <<7971, 953>>>>,
      <<8092, <<7972, 953>>>>, <<8093, <<7973, 953>>>>, <<8094, <<7974, 953>>>>,
      <<8095, <<7975, 953>>>>, <<8096, <<8032, 953>>>>, <<8097, <<8033, 953>>>>,
      <<8098, <<8034, 953>>>>, <<8099, <<8035, 953>>>>, <<8100, <<8036, 953>>>>,
      <<8101, <<8037, 953>>>>, <<8102, <<8038, 953>>>>, <<8103, <<8039, 953>>>>,
      <<8104, <<8032, 953>>>>, <<8105, <<8033, 953>>>>, <<8106, <<8034, 953>>>>,
      <<8107, <<8035, 953>>>>, <<8108, <<8036, 953>>>>, <<8109, <<8037, 953>>>>,
      <<8110, <<8038, 953>>>>, <<8111, <<8039, 953>>>>, <<8114, <<8048, 953>>>>,
      <<8115, <<945, 953>>>>, <<8116, <<940, 953>>>>, <<8118, <<945, 834>>>>,
      <<8119, <<945, 834, 953>>>>, <<8124, <<945, 953>>>>, <<8130, <<8052, 953>>>>,
      <<8131, <<951, 953>>>>, <<8132, <<942, 953>>>>, <<8134, <<951, 834>>>>,
      <<8135, <<951, 834, 953>>>>, <<8140, <<951, 953>>>>,
      <<8146, <<953, 776, 768>>>>, <<8147, <<953, 776, 769>>>>,
      <<8150, <<953, 834>>>>, <<8151, <<953, 776, 834>>>>,
      <<8162, <<965, 776, 768>>>>, <<8163, <<965, 776, 769>>>>,
      <<8164, <<961, 787>>>>, <<8166, <<965, 834>>>>, <<8167, <<965, 776, 834>>>>,
      <<8178, <<8060, 953>>>>, <<8179, <<969, 953>>>>, <<8180, <<974, 953>>>>,
      <<8182, <<969, 834>>>>, <<8183, <<969, 834, 953>>>>, <<8188, <<969, 953>>>>,
      <<64256, <<102, 102>>>>, <<64257, <<102, 105>>>>, <<64258, <<102, 108>>>>,
      <<64259, <<102, 102, 105>>>>, <<64260, <<102, 102, 108>>>>,
      <<64261, <<115, 116>>>>, <<64262, <<115, 116>>>>, <<64275, <<1396, 1398>>>>,
      <<64276, <<1396, 1381>>>>, <<64277, <<1396, 1387>>>>,
      <<64278, <<1406, 1398>>>>, <<64279, <<1396, 1389>>>>
    }

\* two texts are equal up to the case of their letters (Unicode caseless
\* matching: their case foldings are equal)
SameIgnoringCase(a, b) ==
    MapString(a, FoldRuns, FoldSpecial) = MapString(b, FoldRuns, FoldSpecial)

(***************************************************************************)
(* C1: in the restore tool, whenever the resolved target path (the         *)
(* stripped input, or DEFAULT_RESTORE_FILE for an empty input) does not    *)
(* exist on disk, the run ends with the not-found report, no subprocess    *)
(* call is made and the confirmation prompt is not reached.                *)
(***************************************************************************)
C1_ResolvedTarget ==
    IF Strip(LineAt("file")) = <<>> THEN DEFAULT_RESTORE_FILE ELSE Strip(LineAt("file"))

C1_MissingFileAborts ==
    (tool = "restore" /\ Asked("file") /\ C1_ResolvedTarget \notin DOMAIN fs)
        => /\ restore_file = C1_ResolvedTarget
           /\ pc = "done"
           /\ Last(out) = MsgFileNotFound
           /\ calls = <<>>
           /\ ~Asked("confirm")

C1_Witness ==
    /\ tool = "restore"
    /\ Asked("file")
    /\ LineAt("file") = <<11, 32>>
    /\ restore_file = DEFAULT_RESTORE_FILE
    /\ restore_file \notin DOMAIN fs
    /\ Reported(MsgFileNotFound)
    /\ pc = "done"

(***************************************************************************)
(* C2: in the restore tool, every confirmation input that differs from     *)
(* 'YES' (compared without regard to case) ends the run with the           *)
(* cancellation report and no subprocess; a subprocess is started only in  *)
(* runs whose confirmation input equals 'YES' without regard to case.      *)
(***************************************************************************)
C2_OnlyYesProceeds ==
    /\ (tool = "restore" /\ Asked("confirm") /\ ~SameIgnoringCase(LineAt("confirm"), S("YES")))
           => /\ pc = "done"
              /\ Last(out) = MsgCancelled
              /\ calls = <<>>
    /\ (tool = "restore" /\ (StartedCalls # {} \/ pc = "Executing"))
           => /\ Asked("confirm")
              /\ SameIgnoringCase(LineAt("confirm"), S("YES"))

C2_Witness ==
    /\ tool = "restore"
    /\ Asked("confirm")
    /\ LineAt("confirm") = S(" YES")
    /\ Reported(MsgCancelled)
    /\ calls = <<>>
    /\ pc = "done"

(***************************************************************************)
(* C4: in both tools no subprocess is started unless a usable              *)
(* configuration was obtained: host and user present and the password      *)
(* present and, when it was asked for at the console, not empty.           *)
(***************************************************************************)
C4_NoSubprocessWithoutConfig ==
    StartedCalls # {}
        => /\ tool = "restore" =>
                /\ config # None
                /\ config.host # <<>> /\ config.user # <<>> /\ config.password # <<>>
           /\ tool = "backup" =>
                /\ host # <<>>
                /\ password # <<>>

(***************************************************************************)
(* C3: in the backup tool the schema-only mode and the full mode run       *)
(* independently: when the schema-only mode has failed (non-zero exit,     *)
(* empty file, missing executable, other exception) the full mode is still *)
(* executed in the same run.                                               *)
(***************************************************************************)
C3_ModesIndependent ==
    ( /\ tool = "backup"
      /\ pc = "done"
      /\ \E i \in 1..Len(calls) : calls[i].mode = "schema"
      /\ ~Reported(MsgSchemaSuccess) )
        => \E j \in 1..Len(calls) : calls[j].mode = "data"

(***************************************************************************)
(* C5: every full-backup command holds an exclusion flag for each of the   *)
(* five platform-managed schemas and does not hold the schema-only flag.   *)
(***************************************************************************)
ExcludeSchemaLong == S("--exclude-schema")
ExcludeSchemaShort == S("-N")
SchemaOnlyFlag == S("--schema-only")

IsExclusionFlag(arg) == StartsWith(arg, ExcludeSchemaLong) \/ StartsWith(arg, ExcludeSchemaShort)

ExclusionFlags(argv) == { argv[k] : k \in { j \in 1..Len(argv) : IsExclusionFlag(argv[j]) } }

HasArg(argv, arg) == \E k \in 1..Len(argv) : argv[k] = arg

C5_FullExcludesPlatformSchemas ==
    \A i \in 1..Len(calls) :
        calls[i].mode = "data"
            => /\ Cardinality(ExclusionFlags(calls[i].cmd)) >= 5
               /\ ~HasArg(calls[i].cmd, SchemaOnlyFlag)

(***************************************************************************)
(* C6: every schema-only command holds the schema-only flag and no         *)
(* exclusion flag, and the full-mode command is the schema-only one        *)
(* without that flag and with its own output file: host, port, user,       *)
(* database and the clean/no-owner/no-privileges flags are the same.       *)
(***************************************************************************)
NotSchemaOnly(arg) == arg # SchemaOnlyFlag

Front(argv) == SubSeq(argv, 1, Len(argv) - 1)

C6_FixedFlags ==
    { S("--port=5432"), S("--username=postgres"), S("--dbname=postgres"),
      S("--clean"), S("--if-exists"), S("--no-owner"), S("--no-privileges") }

HostFlag == S("--host=")
FileFlag == S("--file=")

C6_SharedFlags(argv) ==
    /\ HasArg(argv, HostFlag \o host)
    /\ \A f \in C6_FixedFlags : HasArg(argv, f)

C6_SchemaOnlyCommand(argv) ==
    /\ HasArg(argv, SchemaOnlyFlag)
    /\ ExclusionFlags(argv) = {}
    /\ Last(argv) = FileFlag \o SchemaFile(timestamp)
    /\ C6_SharedFlags(argv)

C6_FullCommand(argv, schema_argv) ==
    /\ ~HasArg(argv, SchemaOnlyFlag)
    /\ Front(argv) = SelectSeq(Front(schema_argv), NotSchemaOnly)
    /\ Last(argv) = FileFlag \o DataFile(timestamp)
    /\ C6_SharedFlags(argv)

C6_CommandsAgree ==
    tool = "backup"
        => /\ cmd # <<>> => C6_SchemaOnlyCommand(cmd)
           /\ cmd_data # <<>> => C6_FullCommand(cmd_data, cmd)
           /\ \A i \in 1..Len(calls) :
                  /\ calls[i].mode = "schema" => C6_SchemaOnlyCommand(calls[i].cmd)
                  /\ calls[i].mode = "data" => C6_FullCommand(calls[i].cmd, cmd)

C6_Witness ==
    /\ tool = "backup"
    /\ pc = "done"
    /\ \E i, j \in StartedCalls : calls[i].mode = "schema" /\ calls[j].mode = "data"

(***************************************************************************)
(* C7 as stated: two runs of the backup tool, whenever they start, write   *)
(* distinct files; no run writes a file an earlier run produced.           *)
(***************************************************************************)
C7_RunsNeverShareAFile ==
    \A a, b \in produced : a.run # b.run => a.file # b.file

(***************************************************************************)
(* C7 as amended: two runs of the backup tool whose timestamps (the local  *)
(* time read after the password prompt, to the second) differ write        *)
(* distinct files; a run writes a file an earlier run produced only when   *)
(* both read the clock within the same second.                             *)
(***************************************************************************)
C7_DistinctSecondsDistinctFiles ==
    /\ \A a, b \in produced : (a.run # b.run /\ a.sec # b.sec) => a.file # b.file
    /\ \A a \in produced : a.file \in DOMAIN fs /\ fs[a.file].run >= a.run
    /\ \A a \in produced :
           fs[a.file].run # a.run
               => \E b \in produced : /\ b.run = fs[a.file].run
                                      /\ b.file = a.file
                                      /\ b.sec = a.sec

C7_Witness ==
    /\ \E a, b \in produced :
           /\ a.run # b.run
           /\ a.sec # b.sec
           /\ a.sec \div 60 = b.sec \div 60
           /\ StartsWith(a.file, S("schema_backup_"))
           /\ StartsWith(b.file, S("schema_backup_"))
    /\ pc = "done"

(***************************************************************************)
(* C8 as stated: for every subprocess call the overlay's PGPASSWORD is the *)
(* configured password and no element of the argument list contains the    *)
(* password.  (Stated for the calls made with a password that is not       *)
(* empty: the empty text occurs in every argument.)                        *)
(***************************************************************************)
ConfiguredPassword == IF tool = "restore" THEN config.password ELSE password

C8_NoArgumentContainsPassword ==
    \A i \in 1..Len(calls) :
        ConfiguredPassword # <<>>
            => /\ calls[i].env["PGPASSWORD"] = ConfiguredPassword
               /\ \A k \in 1..Len(calls[i].cmd) :
                      ~Contains(calls[i].cmd[k], ConfiguredPassword)

(***************************************************************************)
(* C8 as amended: for every subprocess call the overlay is a copy of the   *)
(* process environment whose PGPASSWORD is the configured password; an     *)
(* element of the argument list contains the password text only where      *)
(* that text already occurs in a password-free part of the command (the    *)
(* executable path, host, port, user, database, file name, a fixed flag);  *)
(* and the tool's own process environment never changes during a run.      *)
(***************************************************************************)
C8_FixedRestoreTexts == { S("--dbname=postgres"), S("--echo-errors"), S("--quiet") }

C8_FixedBackupTexts ==
    { PG_DUMP, S("--port=5432"), S("--username=postgres"), S("--dbname=postgres"),
      S("--no-sync"), SchemaOnlyFlag } \cup C6_FixedFlags

C8_PublicTexts ==
    IF tool = "restore"
    THEN { psql_path, HostFlag \o config.host, S("--port=") \o config.port,
           S("--username=") \o config.user, FileFlag \o restore_file }
         \cup C8_FixedRestoreTexts
    ELSE { HostFlag \o host, FileFlag \o SchemaFile(timestamp),
           FileFlag \o DataFile(timestamp) }
         \cup C8_FixedBackupTexts

C8_PasswordOnlyInOverlay ==
    \A i \in 1..Len(calls) :
        /\ DOMAIN calls[i].env = DOMAIN environ \cup {"PGPASSWORD"}
        /\ calls[i].env["PGPASSWORD"] = ConfiguredPassword
        /\ \A v \in DOMAIN environ \ {"PGPASSWORD"} : calls[i].env[v] = environ[v]
        /\ \A k \in 1..Len(calls[i].cmd) :
               Contains(calls[i].cmd[k], ConfiguredPassword)
                   => \E t \in C8_PublicTexts : Contains(t, ConfiguredPassword)

C8_EnvironKept == run' = run => environ' = environ

C8_PasswordViaOverlay == []C8_PasswordOnlyInOverlay /\ [][C8_EnvironKept]_vars

C8_Witness ==
    /\ tool = "restore"
    /\ StartedCalls # {}
    /\ config.password = S("postgres")
    /\ calls[1].env["PGPASSWORD"] = S("postgres")
    /\ environ["PGPASSWORD"] = S("old")
    /\ \E k \in 1..Len(calls[1].cmd) : Contains(calls[1].cmd[k], S("postgres"))

(***************************************************************************)
(* C9 as stated: in the restore tool a subprocess that needs more than the *)
(* 300 seconds of the timeout ends the run with the timeout report, which  *)
(* differs from the report of a non-zero exit and from the success report; *)
(* for every started subprocess exactly one of these three is reported.    *)
(***************************************************************************)
C9_TimeoutReported ==
    \A i \in StartedCalls :
        (calls[i].mode = "restore" /\ calls[i].duration > 300)
            => /\ pc = "done"
               /\ Reported(MsgTimedOut)
               /\ ~Reported(MsgPsqlFailed)
               /\ ~Reported(MsgComplete)
               /\ MsgTimedOut \notin {MsgPsqlFailed, MsgComplete}

C9_OneOfThreeOutcomes ==
    /\ C9_TimeoutReported
    /\ (tool = "restore" /\ StartedCalls # {})
           => CountReports({MsgComplete, MsgPsqlFailed, MsgTimedOut}) = 1

(***************************************************************************)
(* C9 as amended: as stated, but for every started subprocess exactly one  *)
(* of four reports is written: success, failure (non-zero exit), timeout,  *)
(* or the unexpected-error report for an exception raised after the        *)
(* subprocess was started.                                                 *)
(***************************************************************************)
C9_OneOfFourOutcomes ==
    /\ C9_TimeoutReported
    /\ (tool = "restore" /\ StartedCalls # {})
           => /\ CountReports({MsgComplete, MsgPsqlFailed, MsgTimedOut, MsgUnexpected}) = 1
              /\ calls[1].result = "zero" <=> Reported(MsgComplete)
              /\ calls[1].result = "nonzero" <=> Reported(MsgPsqlFailed)
              /\ calls[1].result = "TimeoutExpired" <=> Reported(MsgTimedOut)
              /\ calls[1].result = "Exception" <=> Reported(MsgUnexpected)

C9_Witness ==
    /\ tool = "restore"
    /\ StartedCalls # {}
    /\ calls[1].duration > 300
    /\ calls[1].timeout = 300
    /\ Last(out) = MsgTimedOut
    /\ pc = "done"

(***************************************************************************)
(* C10 as stated: every finished run of the restore tool has reported      *)
(* exactly one of Succeeded, Failed, TimedOut, Cancelled.                  *)
(***************************************************************************)
C10_FourOutcomes ==
    (tool = "restore" /\ pc = "done")
        => CountReports({MsgComplete, MsgPsqlFailed, MsgTimedOut, MsgCancelled}) = 1

(***************************************************************************)
(* C10 as amended: a run of the restore tool either ends with the          *)
(* configuration error before AwaitingFile or follows AwaitingFile ->      *)
(* AwaitingConfirmation -> Executing, each state entered at most once and  *)
(* only from the one before; it may end early from AwaitingFile (file not  *)
(* found) or AwaitingConfirmation (cancelled); it reports exactly one      *)
(* terminal outcome out of Succeeded, Failed, TimedOut, Cancelled,         *)
(* configuration error, file not found, executable not found, unexpected   *)
(* error, or the traceback of the EOFError a console read raised; it makes *)
(* at most one subprocess call; and it terminates.                         *)
(***************************************************************************)
RestoreOutcomes ==
    { MsgComplete, MsgPsqlFailed, MsgTimedOut, MsgCancelled,
      MsgConfigError, MsgFileNotFound, MsgPsqlNotFound, MsgUnexpected, MsgTraceback }

C10_Order ==
    (tool' = "restore" /\ pc' # pc)
        => \/ run' = run + 1 /\ pc \in {"idle", "done"} /\ pc' \in {"AwaitingFile", "done"}
           \/ run' = run /\ pc = "AwaitingFile" /\ pc' \in {"AwaitingConfirmation", "done"}
           \/ run' = run /\ pc = "AwaitingConfirmation" /\ pc' \in {"Executing", "done"}
           \/ run' = run /\ pc = "Executing" /\ pc' = "done"

C10_OneOutcome ==
    tool = "restore"
        => /\ CountReports(RestoreOutcomes) = (IF pc = "done" THEN 1 ELSE 0)
           /\ Len(calls) <= 1
           /\ pc # "done" => calls = <<>>
           /\ calls # <<>> => (Asked("file") /\ Asked("confirm"))

C10_Terminates == (tool = "restore") ~> (tool = "restore" /\ pc = "done")

C10_OrderedRun == [][C10_Order]_vars /\ []C10_OneOutcome /\ C10_Terminates

C10_Witness ==
    /\ tool = "restore"
    /\ pc = "done"
    /\ Len(lines) = 2
    /\ Len(calls) = 1
    /\ Reported(MsgPsqlFailed)

====
